---- MODULE Spec2Model ----
(***************************************************************************)
(* scripts/generate_third_party_license_file.py as a state machine.        *)
(*                                                                         *)
(* A Python str is a sequence of one-character strings, so that prefix     *)
(* tests, regular-expression searches, strip() and the code-point order    *)
(* used by sorted() are computed character by character.  A dict with      *)
(* optional keys is a record whose DOMAIN holds the keys that are present. *)
(* A call that can raise returns [raised |-> BOOLEAN, value |-> ...].      *)
(* DOMAIN CodePoint lists the characters of the model: printable ASCII and *)
(* every character str.isspace() accepts; \w and str.strip() are modelled  *)
(* on these.  A character outside ASCII is the string "U+XXXX" of its code *)
(* point (U+00A0 is "U+00A0"), as is the grave accent, so that the module  *)
(* means the same under every charset it is read with.  Every licenses     *)
(* value is a string.                                                      *)
(***************************************************************************)
EXTENDS Integers, Sequences, FiniteSets, TLC

(* ------------------------------------------------------------------ *)
(* Characters and the Python str primitives the script uses            *)
(* ------------------------------------------------------------------ *)

\* The printable ASCII characters in code-point order, U+0020 .. U+007E.  The
\* grave accent cannot be written in a TLA+ string; "U+0060" holds its place.
Ascii ==
    <<" ","!","\"","#","$","%","&","'","(",")","*","+",",","-",".","/","0","1","2","3","4","5",
      "6","7","8","9",":",";","<","=",">","?","@","A","B","C","D","E","F","G","H","I","J","K",
      "L","M","N","O","P","Q","R","S","T","U","V","W","X","Y","Z","[","\\","]","^","_","U+0060","a",
      "b","c","d","e","f","g","h","i","j","k","l","m","n","o","p","q","r","s","t","u","v","w",
      "x","y","z","{","|","}","~">>

\* ASCII whitespace characters that have no escape in a TLA+ string; each
\* string below holds the one character itself: U+000B (vertical tab) and
\* U+001C .. U+001F (file, group, record and unit separator).
VT   == ""
FS   == ""
GS   == ""
RS   == ""
US   == ""

\* The whitespace characters of Latin-1 outside ASCII: next line and no-break
\* space.
NEL  == "U+0085"
NBSP == "U+00A0"

\* ord(c) of the whitespace characters above U+00FF: Ogham space mark, the
\* spaces U+2000 .. U+200A, line and paragraph separator, narrow no-break space,
\* medium mathematical space and ideographic space.
UnicodeSpace ==
    ("U+1680" :> 5760) @@ ("U+2000" :> 8192) @@ ("U+2001" :> 8193)
    @@ ("U+2002" :> 8194) @@ ("U+2003" :> 8195) @@ ("U+2004" :> 8196)
    @@ ("U+2005" :> 8197) @@ ("U+2006" :> 8198) @@ ("U+2007" :> 8199)
    @@ ("U+2008" :> 8200) @@ ("U+2009" :> 8201) @@ ("U+200A" :> 8202)
    @@ ("U+2028" :> 8232) @@ ("U+2029" :> 8233) @@ ("U+202F" :> 8239)
    @@ ("U+205F" :> 8287) @@ ("U+3000" :> 12288)

\* ord(c) for the characters of the model.
CodePoint ==
    [c \in {Ascii[k] : k \in 1..Len(Ascii)} |->
        31 + (CHOOSE k \in 1..Len(Ascii) : Ascii[k] = c)]
    @@ ("\t" :> 9) @@ ("\n" :> 10) @@ (VT :> 11) @@ ("\f" :> 12) @@ ("\r" :> 13)
    @@ (FS :> 28) @@ (GS :> 29) @@ (RS :> 30) @@ (US :> 31)
    @@ (NEL :> 133) @@ (NBSP :> 160) @@ UnicodeSpace

Ord(c) == CodePoint[c]

\* str.__lt__: lexicographic by code point, a proper prefix is smaller.
RECURSIVE StrLess(_, _)
StrLess(a, b) ==
    IF b = <<>> THEN FALSE
    ELSE IF a = <<>> THEN TRUE
    ELSE IF Head(a) = Head(b) THEN StrLess(Tail(a), Tail(b))
    ELSE Ord(Head(a)) < Ord(Head(b))

\* sorted(keys) with reverse=True, a variant of sorted used to test OrderedRows.
RECURSIVE sorted_reverse(_)
sorted_reverse(S) ==
    IF S = {} THEN <<>>
    ELSE LET m == CHOOSE x \in S : \A y \in S \ {x} : StrLess(y, x)
         IN  <<m>> \o sorted_reverse(S \ {m})

\* sorted(S) for a set S of distinct strings: ascending by StrLess.
RECURSIVE sorted(_)
sorted(S) ==
    IF S = {} THEN <<>>
    ELSE LET m == CHOOSE x \in S : \A y \in S \ {x} : StrLess(x, y)
         IN  <<m>> \o sorted(S \ {m})

\* str.startswith(prefix)
startswith(s, prefix) ==
    /\ Len(prefix) <= Len(s)
    /\ SubSeq(s, 1, Len(prefix)) = prefix

\* str.isspace() of one character: the ten ASCII whitespace characters, the
\* two of Latin-1 and the seventeen above U+00FF.
IsSpace(c) ==
    c \in {"\t", "\n", VT, "\f", "\r", FS, GS, RS, US, " ", NEL, NBSP}
            \cup DOMAIN UnicodeSpace

\* str.strip(): drops leading and trailing whitespace.
RECURSIVE lstrip(_)
lstrip(s) == IF s # <<>> /\ IsSpace(Head(s)) THEN lstrip(Tail(s)) ELSE s

RECURSIVE rstrip(_)
rstrip(s) ==
    IF s # <<>> /\ IsSpace(s[Len(s)]) THEN rstrip(SubSeq(s, 1, Len(s) - 1)) ELSE s

strip(s) == rstrip(lstrip(s))

\* The regular-expression class [\w-]: ASCII letters, digits and underscore
\* (the \w characters of the model), and the hyphen.
NameChars ==
    {c \in DOMAIN CodePoint :
        \/ c \in {"-", "_"}
        \/ (48 <= CodePoint[c] /\ CodePoint[c] <= 57)
        \/ (65 <= CodePoint[c] /\ CodePoint[c] <= 90)
        \/ (97 <= CodePoint[c] /\ CodePoint[c] <= 122)}

IsNameChar(c) == c \in NameChars

\* End of the maximal run of [\w-] characters of s that starts at position i
\* (i - 1 when s[i] is not such a character).
RECURSIVE RunEnd(_, _)
RunEnd(s, i) ==
    IF i <= Len(s) /\ IsNameChar(s[i]) THEN RunEnd(s, i + 1) ELSE i - 1

\* Whether the pattern ([\w-]+)@ matches s at start position i.  '@' is not in
\* [\w-], so the greedy run either is followed by '@' or no shorter run is.
NameMatchAt(s, i) ==
    LET e == RunEnd(s, i) IN e >= i /\ e + 1 <= Len(s) /\ s[e + 1] = "@"

\* re.search(r"([\w-]+)@", dep): the leftmost start position that matches;
\* value is group(1).  raised stands for re.search returning None, on which
\* .group(1) raises AttributeError.
re_search_name(dep) ==
    LET starts == {i \in 1..Len(dep) : NameMatchAt(dep, i)} IN
    IF starts = {} THEN [raised |-> TRUE, value |-> <<>>]
    ELSE LET i == CHOOSE x \in starts : \A y \in starts : x <= y
         IN  [raised |-> FALSE, value |-> SubSeq(dep, i, RunEnd(dep, i))]

HTTPS ==
    <<"h","t","t","p","s">>
HTTPS_SCHEME ==
    <<"h","t","t","p","s",":","/","/">>

\* The prefix of s before its first newline: what (.*) captures without DOTALL.
RECURSIVE UpToNewline(_)
UpToNewline(s) ==
    IF s = <<>> \/ Head(s) = "\n" THEN <<>> ELSE <<Head(s)>> \o UpToNewline(Tail(s))

\* re.search(r"https:\/\/(.*)", repo_url).group(1): the text after the leftmost
\* "https://", up to the end of that line; raised when there is no "https://".
re_search_https(repo_url) ==
    LET n == Len(HTTPS_SCHEME)
        starts == {i \in 1..(Len(repo_url) - n + 1) :
                      SubSeq(repo_url, i, i + n - 1) = HTTPS_SCHEME} IN
    IF starts = {} THEN [raised |-> TRUE, value |-> <<>>]
    ELSE LET i == CHOOSE x \in starts : \A y \in starts : x <= y
         IN  [raised |-> FALSE,
              value |-> UpToNewline(SubSeq(repo_url, i + n, Len(repo_url)))]

COPYRIGHT_ ==
    <<"C","o","p","y","r","i","g","h","t"," ">>

\* A variant of re_match_Copyright that searches the whole line (re.search),
\* used to test FirstCopyrightLine.
re_search_Copyright(line) ==
    \E i \in 1..Len(line) :
        /\ i + Len(COPYRIGHT_) - 1 <= Len(line)
        /\ SubSeq(line, i, i + Len(COPYRIGHT_) - 1) = COPYRIGHT_

\* re.match(r"Copyright ", line): the pattern matches at the start of the line.
re_match_Copyright(line) == startswith(line, COPYRIGHT_)

\* matches = [line for line in f if re.match(r"Copyright ", line)]
matches(f) == SelectSeq(f, re_match_Copyright)

(* ------------------------------------------------------------------ *)
(* get_repo_url                                                        *)
(* ------------------------------------------------------------------ *)

NAME_EYES ==
    <<"e","y","e","s">>
URL_EYES ==
    <<"h","t","t","p","s",":","/","/","g","i","t","h","u","b",".","c","o","m","/","c","l","o",
      "u","d","h","e","a","d","/","e","y","e","s",".","j","s">>
NO_REPO ==
    <<"N","O"," ","R","E","P","O">>
LICENSE_NOT_FOUND ==
    <<"L","I","C","E","N","S","E"," ","N","O","T"," ","F","O","U","N","D">>

\* REPO_EXCEPTIONS = {"eyes": "https://github.com/cloudhead/eyes.js"}
REPO_EXCEPTIONS == [n \in {NAME_EYES} |-> URL_EYES]

\* A variant of resolve_repo_url that consults REPO_EXCEPTIONS before the
\* metadata, used to test OriginPriority.
resolve_exceptions_first(dep_name, dep_meta) ==
    IF dep_name \in DOMAIN REPO_EXCEPTIONS THEN REPO_EXCEPTIONS[dep_name]
    ELSE IF "repository" \in DOMAIN dep_meta THEN dep_meta.repository
    ELSE NO_REPO

\* dep_meta.get("repository", REPO_EXCEPTIONS.get(dep_name, "NO REPO"))
resolve_repo_url(dep_name, dep_meta) ==
    IF "repository" \in DOMAIN dep_meta THEN dep_meta.repository
    ELSE IF dep_name \in DOMAIN REPO_EXCEPTIONS THEN REPO_EXCEPTIONS[dep_name]
    ELSE NO_REPO

\* Lines 12-14: a value that starts with "https" is replaced by what follows
\* its "https://"; any other value is returned as it is.
normalize_repo_url(repo_url) ==
    IF startswith(repo_url, HTTPS)
    THEN re_search_https(repo_url)
    ELSE [raised |-> FALSE, value |-> repo_url]

\* get_repo_url(dep_name, dep_meta)
get_repo_url(dep_name, dep_meta) ==
    normalize_repo_url(resolve_repo_url(dep_name, dep_meta))

(* ------------------------------------------------------------------ *)
(* csv.DictWriter                                                      *)
(* ------------------------------------------------------------------ *)

F_Component ==
    <<"C","o","m","p","o","n","e","n","t">>
F_Origin ==
    <<"O","r","i","g","i","n">>
F_License ==
    <<"L","i","c","e","n","s","e">>
F_Copyright ==
    <<"C","o","p","y","r","i","g","h","t">>

\* fieldnames = ["Component", "Origin", "License", "Copyright"]
fieldnames == <<F_Component, F_Origin, F_License, F_Copyright>>

\* Doubling of the quote character inside a quoted field.
RECURSIVE csv_double_quotes(_)
csv_double_quotes(s) ==
    IF s = <<>> THEN <<>>
    ELSE (IF Head(s) = "\"" THEN <<"\"", "\"">> ELSE <<Head(s)>>)
            \o csv_double_quotes(Tail(s))

\* One field under the default dialect (QUOTE_MINIMAL): quoted when it holds
\* the delimiter, the quote character, or a line-terminator character.
csv_field(s) ==
    IF \E k \in 1..Len(s) : s[k] \in {",", "\"", "\r", "\n"}
    THEN <<"\"">> \o csv_double_quotes(s) \o <<"\"">>
    ELSE s

\* The text writer.writerow emits for a list of fields: joined by ',' and
\* ended by "\r\n".
RECURSIVE csv_join(_)
csv_join(fields) ==
    IF fields = <<>> THEN <<>>
    ELSE IF Len(fields) = 1 THEN csv_field(fields[1])
    ELSE csv_field(fields[1]) \o <<",">> \o csv_join(Tail(fields))

csv_line(fields) == csv_join(fields) \o <<"\r", "\n">>

\* DictWriter.writerow(dep): the dict's values in fieldnames order.
dict_to_list(d) == <<d.Component, d.Origin, d.License, d.Copyright>>

(* ------------------------------------------------------------------ *)
(* The environment: scanner output, license files, the CSV on disk     *)
(* ------------------------------------------------------------------ *)

KEY_DOLLAR ==
    <<"$","@","1",".","0",".","0">>
KEY_SCOPED ==
    <<"@","s","c","o","p","e","/","p","k","g","@","1",".","0",".","0">>
KEY_ZED ==
    <<"Z","e","d","@","1",".","0",".","0">>
KEY_EYES ==
    <<"e","y","e","s","@","0",".","1",".","0">>
KEY_FOO1 ==
    <<"f","o","o","@","1",".","0",".","0">>
KEY_FOO2 ==
    <<"f","o","o","@","2",".","0",".","0">>
KEY_LODASH ==
    <<"l","o","d","a","s","h",".","m","e","r","g","e","@","4",".","6",".","2">>

\* name@version keys the scanner may print: a name without any [\w-]
\* character, a scoped package, a name with an upper-case initial, the
\* REPO_EXCEPTIONS name, two versions of one name, and a dotted name.
KeyPool ==
    {KEY_DOLLAR, KEY_SCOPED, KEY_ZED, KEY_EYES, KEY_FOO1, KEY_FOO2, KEY_LODASH}

REPO_HTTPS ==
    <<"h","t","t","p","s",":","/","/","g","i","t","h","u","b",".","c","o","m","/","x","/","f",
      "o","o">>
REPO_SHORT ==
    <<"g","i","t","h","u","b",".","c","o","m","/","x","/","f","o","o">>
REPO_GIT ==
    <<"g","i","t","+","h","t","t","p","s",":","/","/","g","i","t","h","u","b",".","c","o","m",
      "/","x","/","f","o","o">>
REPO_HTTP ==
    <<"h","t","t","p",":","/","/","g","i","t","h","u","b",".","c","o","m","/","x","/","f","o",
      "o">>
REPO_NOSLASH ==
    <<"h","t","t","p","s",":","g","i","t","h","u","b",".","c","o","m","/","x","/","f","o","o">>
REPO_NEWLINE ==
    <<"h","t","t","p","s",":","/","/","g","i","t","h","u","b",".","c","o","m","/","x","\n","f",
      "o","o">>
MIT ==
    <<"M","I","T">>
PATH_A ==
    <<"/","a","/","L","I","C","E","N","S","E">>
PATH_B ==
    <<"/","b","/","L","I","C","E","N","S","E">>
PATH_C ==
    <<"/","c","/","L","I","C","E","N","S","E">>
PATH_GONE ==
    <<"/","g","o","n","e","/","L","I","C","E","N","S","E">>

A1 ==
    <<"M","I","T"," ","L","i","c","e","n","s","e","\n">>
A2 ==
    <<"\n">>
A3 ==
    <<"C","o","p","y","r","i","g","h","t"," ","(","c",")"," ","2","0","2","0"," ","F","o","o",
      "\n">>
A4 ==
    <<"C","o","p","y","r","i","g","h","t"," ","(","c",")"," ","2","0","2","1"," ","B","a","r",
      "\n">>
B1 ==
    <<" ","C","o","p","y","r","i","g","h","t"," ","(","c",")"," ","i","n","d","e","n","t","e",
      "d","\n">>
B2 ==
    <<"C","o","p","y","r","i","g","h","t","(","c",")"," ","n","o","s","p","a","c","e","\n">>
B3 ==
    <<"c","o","p","y","r","i","g","h","t"," ","(","c",")"," ","l","o","w","e","r","\n">>
B4 ==
    <<"C","o","p","y","r","i","g","h","t"," ","2","0","1","9",","," ","\"","B","a","z","\""," ",
      "\t","","","U+00A0","U+1680","U+2003","\n">>
B5 ==
    <<"P","e","r","m","i","s","s","i","o","n"," ","i","s"," ","h","e","r","e","b","y"," ","g",
      "r","a","n","t","e","d">>
C1L ==
    <<"I","S","C"," ","L","i","c","e","n","s","e","\n">>
C2L ==
    <<"A","l","l"," ","r","i","g","h","t","s"," ","r","e","s","e","r","v","e","d",".","\n">>

\* The license files on disk, each as the lines that iterating the open file
\* yields.  PATH_GONE is not on disk: open() raises FileNotFoundError.
LicenseFiles ==
    (PATH_A :> <<A1, A2, A3, A4>>) @@
    (PATH_B :> <<B1, B2, B3, B4, B5>>) @@
    (PATH_C :> <<C1L, C2L>>)

\* Metadata objects the scanner may print.  path is a field the scanner always
\* prints and the script never reads; META_SCENARIO is the object of the
\* one-dependency scenario.
META_SCENARIO   == [repository |-> REPO_HTTPS, licenses |-> MIT]
META_LICENSES   == [licenses |-> MIT]
META_BARE       == [path |-> "node_modules"]
META_FILE_ONLY  == [licenseFile |-> PATH_A]
META_FILE_A     == [repository |-> REPO_HTTPS, licenses |-> MIT, licenseFile |-> PATH_A]
META_FILE_B     == [repository |-> REPO_SHORT, licenseFile |-> PATH_B]
META_FILE_C     == [repository |-> REPO_GIT, licenses |-> MIT, licenseFile |-> PATH_C]
META_GONE       == [licenses |-> MIT, licenseFile |-> PATH_GONE]
META_EMPTY_FILE == [repository |-> REPO_HTTP, licenseFile |-> <<>>]
META_NOSLASH    == [repository |-> REPO_NOSLASH, licenseFile |-> PATH_A]
META_NEWLINE    == [repository |-> REPO_NEWLINE, licenseFile |-> PATH_A]

MetaPool ==
    {META_SCENARIO, META_LICENSES, META_BARE, META_FILE_ONLY, META_FILE_A,
     META_FILE_B, META_FILE_C, META_GONE, META_EMPTY_FILE, META_NOSLASH,
     META_NEWLINE}

\* Largest number of dependencies in one scanner output.
MaxDeps == 2

\* The JSON objects the scanner may print: at most MaxDeps keys of KeyPool,
\* each with a metadata object of MetaPool.
Graphs ==
    UNION {[K -> MetaPool] : K \in {X \in SUBSET KeyPool : Cardinality(X) <= MaxDeps}}

STALE ==
    <<"s","t","a","l","e","\r","\n">>

\* LICENSE-3rdparty.csv before the run: not there, or left by an earlier run.
AbsentCsv == [exists |-> FALSE, rows |-> <<>>]
StaleCsv  == [exists |-> TRUE, rows |-> <<STALE>>]

\* The name csv_file: unbound before line 49 and closed after the with block
\* (open is FALSE, nothing buffered), else the open file object with the text
\* written to it and not yet on disk.
ClosedFile == [open |-> FALSE, buffer |-> <<>>]

NoError == [exc |-> "", line |-> 0]
Unbound == [bound |-> FALSE, value |-> <<>>]

(* ------------------------------------------------------------------ *)
(* The script                                                          *)
(* ------------------------------------------------------------------ *)

VARIABLES
    scanner,                 \* what license-checker does: exit status, stdout
    LICENSE_3rdparty_csv,    \* the file LICENSE-3rdparty.csv on disk
    csv_file,                \* the file object of line 49 and its write buffer
    pc,                      \* "start", "loop", "write", "done", "aborted"
    error,                   \* the uncaught exception and the line raising it
    deps,                    \* json.loads(raw_output)
    alphabetized_dep_names,  \* sorted(deps.keys())
    i,                       \* position of the loop of line 25
    dep_copyright,           \* the module-level name dep_copyright
    formatted_deps,          \* the records built so far
    j                        \* position of the loop of line 53

vars == <<scanner, LICENSE_3rdparty_csv, csv_file, pc, error, deps, alphabetized_dep_names, i,
          dep_copyright, formatted_deps, j>>

Init ==
    /\ \/ /\ scanner \in {[returncode |-> 0, valid_json |-> TRUE, graph |-> g] :
                             g \in Graphs}
       \/ /\ scanner \in {[returncode |-> 1, valid_json |-> TRUE, graph |-> <<>>],
                          [returncode |-> 0, valid_json |-> FALSE, graph |-> <<>>]}
    /\ LICENSE_3rdparty_csv \in {AbsentCsv, StaleCsv}
    /\ csv_file = ClosedFile
    /\ pc = "start"
    /\ error = NoError
    /\ deps = <<>>
    /\ alphabetized_dep_names = <<>>
    /\ i = 1
    /\ dep_copyright = Unbound
    /\ formatted_deps = <<>>
    /\ j = 1

\* The run ends with an uncaught exception.
Abort(exc, line) ==
    /\ pc' = "aborted"
    /\ error' = [exc |-> exc, line |-> line]

\* A variant of FetchDependencyGraph in which LICENSE-3rdparty.csv is opened
\* for writing before the scanner runs, used to test NoCsvOnAbort.
FetchDependencyGraph_open_first ==
    /\ pc = "start"
    /\ LICENSE_3rdparty_csv' = [exists |-> TRUE, rows |-> <<>>]
    /\ csv_file' = [open |-> TRUE, buffer |-> <<>>]
    /\ IF scanner.returncode # 0
       THEN Abort("CalledProcessError", 18) /\ UNCHANGED <<deps, alphabetized_dep_names>>
       ELSE IF ~scanner.valid_json
       THEN Abort("JSONDecodeError", 21) /\ UNCHANGED <<deps, alphabetized_dep_names>>
       ELSE /\ deps' = scanner.graph
            /\ alphabetized_dep_names' = sorted(DOMAIN scanner.graph)
            /\ pc' = "loop"
            /\ UNCHANGED error
    /\ UNCHANGED <<scanner, i, dep_copyright, formatted_deps, j>>

\* Lines 18-22: run the scanner, parse its output, sort the keys.
FetchDependencyGraph ==
    /\ pc = "start"
    /\ IF scanner.returncode # 0
       THEN Abort("CalledProcessError", 18) /\ UNCHANGED <<deps, alphabetized_dep_names>>
       ELSE IF ~scanner.valid_json
       THEN Abort("JSONDecodeError", 21) /\ UNCHANGED <<deps, alphabetized_dep_names>>
       ELSE /\ deps' = scanner.graph
            /\ alphabetized_dep_names' = sorted(DOMAIN scanner.graph)
            /\ pc' = "loop"
            /\ UNCHANGED error
    /\ UNCHANGED <<scanner, LICENSE_3rdparty_csv, csv_file, i, dep_copyright,
                   formatted_deps, j>>

\* dep_meta.get(key, default)
get(dep_meta, key, default) ==
    IF key \in DOMAIN dep_meta THEN dep_meta[key] ELSE default

\* Lines 26-47 for one key: the exception raised (NoError when none), the value
\* of dep_copyright afterwards, and the record appended.
iteration(dep, dep_meta, copyright) ==
    LET name == re_search_name(dep)
        repo == get_repo_url(name.value, dep_meta)
        license_file == get(dep_meta, "licenseFile", <<>>)
        readable == license_file \in DOMAIN LicenseFiles
        found == IF license_file # <<>> /\ readable
                 THEN matches(LicenseFiles[license_file]) ELSE <<>>
        after == IF Len(found) > 0
                 THEN [bound |-> TRUE, value |-> strip(found[1])]
                 ELSE copyright
        stop(exc, line, c) ==
            [error |-> [exc |-> exc, line |-> line], dep_copyright |-> c,
             record |-> <<>>]
    IN  IF name.raised THEN stop("AttributeError", 27, copyright)
        ELSE IF repo.raised THEN stop("AttributeError", 13, copyright)
        ELSE IF license_file # <<>> /\ ~readable
        THEN stop("FileNotFoundError", 35, copyright)
        ELSE IF ~after.bound THEN stop("NameError", 45, after)
        ELSE [error |-> NoError, dep_copyright |-> after,
              record |-> <<[Component |-> name.value,
                            Origin    |-> repo.value,
                            License   |-> get(dep_meta, "licenses", LICENSE_NOT_FOUND),
                            Copyright |-> after.value]>>]

\* Lines 25-47: one iteration of the loop over alphabetized_dep_names.
BuildRecord ==
    /\ pc = "loop"
    /\ i <= Len(alphabetized_dep_names)
    /\ LET dep == alphabetized_dep_names[i]
           r == iteration(dep, deps[dep], dep_copyright)
       IN  /\ dep_copyright' = r.dep_copyright
           /\ formatted_deps' = formatted_deps \o r.record
           /\ IF r.error = NoError
              THEN i' = i + 1 /\ UNCHANGED <<pc, error>>
              ELSE Abort(r.error.exc, r.error.line) /\ UNCHANGED i
    /\ UNCHANGED <<scanner, LICENSE_3rdparty_csv, csv_file, deps,
                   alphabetized_dep_names, j>>

\* Lines 49-52: after the last iteration, open the file for writing and write
\* the header.  open() truncates the file on disk, or creates it empty; the
\* header goes to the buffer of the file object.  The open fails when the
\* destination is not writable.
OpenCsv ==
    /\ pc = "loop"
    /\ i > Len(alphabetized_dep_names)
    /\ \E writable \in BOOLEAN :
          IF writable
          THEN /\ LICENSE_3rdparty_csv' = [exists |-> TRUE, rows |-> <<>>]
               /\ csv_file' = [open |-> TRUE, buffer |-> <<csv_line(fieldnames)>>]
               /\ pc' = "write"
               /\ UNCHANGED error
          ELSE /\ Abort("PermissionError", 49)
               /\ UNCHANGED <<LICENSE_3rdparty_csv, csv_file>>
    /\ UNCHANGED <<scanner, deps, alphabetized_dep_names, i, dep_copyright,
                   formatted_deps, j>>

\* Lines 53-54: write one record.  The line is added to the buffer of the
\* file object; the file on disk does not change.  (The script never calls
\* flush(), and the whole text of a run of the model is smaller than the
\* buffer of the file object, which therefore is not written out before the
\* file is closed.)
WriteRow ==
    /\ pc = "write"
    /\ j <= Len(formatted_deps)
    /\ csv_file' = [csv_file EXCEPT
                      !.buffer = Append(@, csv_line(dict_to_list(formatted_deps[j])))]
    /\ j' = j + 1
    /\ UNCHANGED <<scanner, LICENSE_3rdparty_csv, pc, error, deps,
                   alphabetized_dep_names, i, dep_copyright, formatted_deps>>

\* The loop of line 53 is exhausted: leaving the with block closes the file,
\* which writes the buffered header and rows to disk, and the script ends.
Finish ==
    /\ pc = "write"
    /\ j > Len(formatted_deps)
    /\ LICENSE_3rdparty_csv' =
          [LICENSE_3rdparty_csv EXCEPT !.rows = @ \o csv_file.buffer]
    /\ csv_file' = ClosedFile
    /\ pc' = "done"
    /\ UNCHANGED <<scanner, error, deps, alphabetized_dep_names, i,
                   dep_copyright, formatted_deps, j>>

Next ==
    \/ FetchDependencyGraph
    \/ BuildRecord
    \/ OpenCsv
    \/ WriteRow
    \/ Finish

Spec == Init /\ [][Next]_vars

(* ------------------------------------------------------------------ *)
(* Properties                                                          *)
(* ------------------------------------------------------------------ *)

\* The k-th record was built from the k-th sorted key and its metadata.
KeyOf(k) == alphabetized_dep_names[k]
MetaOf(k) == deps[KeyOf(k)]
Built == 1..Len(formatted_deps)

\* The scanner exited 0 and printed a JSON object.
ScanOk == scanner.returncode = 0 /\ scanner.valid_json

\* The line begins with the literal text "Copyright ".
BeginsWithCopyright(line) ==
    /\ Len(line) >= Len(COPYRIGHT_)
    /\ \A q \in 1..Len(COPYRIGHT_) : line[q] = COPYRIGHT_[q]

\* The metadata names a license file that is on disk and has a line beginning
\* with "Copyright ".
OwnFileHasCopyrightLine(m) ==
    /\ "licenseFile" \in DOMAIN m
    /\ m.licenseFile # <<>>
    /\ m.licenseFile \in DOMAIN LicenseFiles
    /\ \E n \in 1..Len(LicenseFiles[m.licenseFile]) :
          BeginsWithCopyright(LicenseFiles[m.licenseFile][n])

\* Input on which neither the name pattern, nor the origin rule, nor open()
\* can raise: the name before the first '@' is a non-empty run of [\w-]
\* characters, a repository that starts with "https" starts with "https://"
\* and has no newline, and a license file that is named is on disk.
PlainKey(key) ==
    \E p \in 2..Len(key) :
        key[p] = "@" /\ \A q \in 1..(p - 1) : key[q] \in NameChars

PlainMeta(m) ==
    /\ "repository" \in DOMAIN m =>
          \/ ~startswith(m.repository, HTTPS)
          \/ /\ startswith(m.repository, HTTPS_SCHEME)
             /\ \A q \in 1..Len(m.repository) : m.repository[q] # "\n"
    /\ "licenseFile" \in DOMAIN m =>
          m.licenseFile \in DOMAIN LicenseFiles \cup {<<>>}

PlainInput(g) == \A key \in DOMAIN g : PlainKey(key) /\ PlainMeta(g[key])

\* The run stopped with an exception before line 49 opened the CSV.
AbortedBeforeWrite == pc = "aborted" /\ error.line < 49

\* C1: a record's Copyright is non-empty only if that dependency's own license
\* file has a line beginning with "Copyright "; no value is taken over from a
\* dependency processed earlier.
CopyrightOnlyFromOwnFile ==
    \A k \in Built :
        formatted_deps[k].Copyright # <<>> => OwnFileHasCopyrightLine(MetaOf(k))

HEADER_ROW ==
    <<"C","o","m","p","o","n","e","n","t",",","O","r","i","g","i","n",",","L","i","c","e","n",
      "s","e",",","C","o","p","y","r","i","g","h","t","\r","\n">>
SCENARIO_ROW ==
    <<"f","o","o",",","g","i","t","h","u","b",".","c","o","m","/","x","/","f","o","o",",","M",
      "I","T",",","\r","\n">>

\* The scanner output of the one-dependency scenario.
ScenarioGraph == KEY_FOO1 :> META_SCENARIO

\* C2: the run on {"foo@1.0.0": {repository: "https://github.com/x/foo",
\* licenses: "MIT"}} completes and writes the header and the single row
\* foo,github.com/x/foo,MIT,<empty>; and a run on plain input whose first
\* sorted key has no licenseFile is not stopped before the CSV is written.
ScenarioWritesOneRow ==
    /\ (ScanOk /\ scanner.graph = ScenarioGraph) =>
          /\ ~AbortedBeforeWrite
          /\ pc = "done" => LICENSE_3rdparty_csv.rows = <<HEADER_ROW, SCENARIO_ROW>>
    /\ (ScanOk /\ PlainInput(scanner.graph) /\ Len(alphabetized_dep_names) > 0
          /\ "licenseFile" \notin DOMAIN MetaOf(1)) => ~AbortedBeforeWrite

\* C3: on plain input with readable license files the run is not stopped
\* before the CSV is written, and the finished CSV has one data row per input
\* key.
RowCountEqualsKeyCount ==
    (ScanOk /\ PlainInput(scanner.graph)) =>
        /\ ~AbortedBeforeWrite
        /\ pc = "done" =>
              Len(LICENSE_3rdparty_csv.rows) = 1 + Cardinality(DOMAIN scanner.graph)

\* The substring of s before its first '@' (all of s when it has none).
RECURSIVE BeforeFirstAt(_)
BeforeFirstAt(s) ==
    IF s = <<>> \/ Head(s) = "@" THEN <<>>
    ELSE <<Head(s)>> \o BeforeFirstAt(Tail(s))

\* C4: for every dependency key a name is extracted, and the Component of its
\* record is the substring of the key before the first '@'.
ComponentIsPrefixBeforeAt ==
    /\ ~(pc = "aborted" /\ error.line = 27)
    /\ \A k \in Built : formatted_deps[k].Component = BeforeFirstAt(KeyOf(k))

\* C5: get_repo_url never fails: no run stops with an exception raised inside
\* get_repo_url (line 13), whatever the name and the metadata.
OriginNeverFails == ~(pc = "aborted" /\ error.line = 13)

\* The scanner output names a license file that is not on disk.
UnreadableLicenseFile(g) ==
    \E key \in DOMAIN g :
        /\ "licenseFile" \in DOMAIN g[key]
        /\ g[key].licenseFile # <<>>
        /\ g[key].licenseFile \notin DOMAIN LicenseFiles

\* The scanner exits non-zero, or prints invalid JSON, or names a license file
\* that cannot be opened.
InputFailure ==
    \/ scanner.returncode # 0
    \/ ~scanner.valid_json
    \/ UnreadableLicenseFile(scanner.graph)

\* C6: when the scanner exits non-zero, or its output is not valid JSON, or a
\* license file it names cannot be opened, the run never opens
\* LICENSE-3rdparty.csv and never finishes: after a scanner failure it does
\* not enter the loop, in the loop the key whose license file cannot be opened
\* is still to be processed (so line 25 takes another step), and it is stopped
\* only by an exception raised before line 49 (CalledProcessError for a
\* non-zero exit, else JSONDecodeError for invalid JSON); no step of such a
\* run changes the file on disk; and in every run the step that opens the
\* file, and any step that changes it, comes after a record was built for
\* every key of the scanner output.
NoCsvOnAbort ==
    /\ [](InputFailure =>
            /\ pc \in {"start", "loop", "aborted"}
            /\ ~csv_file.open
            /\ scanner.returncode # 0 \/ ~scanner.valid_json => pc # "loop"
            /\ pc = "loop" =>
                  \E k \in i..Len(alphabetized_dep_names) :
                      UnreadableLicenseFile(KeyOf(k) :> MetaOf(k))
            /\ pc = "aborted" => error.line < 49
            /\ (pc = "aborted" /\ scanner.returncode # 0) =>
                  error = [exc |-> "CalledProcessError", line |-> 18]
            /\ (pc = "aborted" /\ scanner.returncode = 0 /\ ~scanner.valid_json) =>
                  error = [exc |-> "JSONDecodeError", line |-> 21])
    /\ [][InputFailure => LICENSE_3rdparty_csv' = LICENSE_3rdparty_csv]_vars
    /\ [][(LICENSE_3rdparty_csv' # LICENSE_3rdparty_csv \/ csv_file'.open) =>
            /\ ScanOk
            /\ Len(formatted_deps) = Cardinality(DOMAIN scanner.graph)]_vars

\* The second key names a license file that cannot be opened: a first record
\* was built, the run ended with FileNotFoundError at line 35, the file object
\* was never opened and the CSV of the earlier run is still on disk.
NoCsvOnAbortWitness ==
    /\ UnreadableLicenseFile(scanner.graph)
    /\ pc = "aborted"
    /\ error = [exc |-> "FileNotFoundError", line |-> 35]
    /\ Len(formatted_deps) >= 1
    /\ ~csv_file.open
    /\ LICENSE_3rdparty_csv = StaleCsv

\* a sorts strictly before b: at the first position where they differ a has
\* the smaller code point, or a is a proper prefix of b.
KeyBefore(a, b) ==
    \E p \in 1..Len(b) :
        /\ p - 1 <= Len(a)
        /\ SubSeq(a, 1, p - 1) = SubSeq(b, 1, p - 1)
        /\ \/ p = Len(a) + 1
           \/ p <= Len(a) /\ CodePoint[a[p]] < CodePoint[b[p]]

\* The CSV text of records 1 .. n, one line each, in the order of the list.
RowsOf(n) == [k \in 1..n |-> csv_line(dict_to_list(formatted_deps[k]))]

\* C7: the sorted key list holds every input key in strictly ascending
\* code-point order of the full name@version key, record k is built from the
\* k-th key, the lines written to the open file are the header and then the
\* records in list order, and the data rows of the finished CSV on disk are
\* the records in that order: row k is the text of record k.
OrderedRows ==
    /\ pc # "start" /\ ScanOk =>
          {KeyOf(k) : k \in 1..Len(alphabetized_dep_names)} = DOMAIN scanner.graph
    /\ \A a, b \in 1..Len(alphabetized_dep_names) :
          a < b => KeyBefore(KeyOf(a), KeyOf(b))
    /\ \A k \in Built :
          /\ formatted_deps[k].Component = re_search_name(KeyOf(k)).value
          /\ formatted_deps[k].Origin =
                get_repo_url(formatted_deps[k].Component, MetaOf(k)).value
          /\ formatted_deps[k].License = get(MetaOf(k), "licenses", LICENSE_NOT_FOUND)
    /\ csv_file.open =>
          /\ pc = "write"
          /\ csv_file.buffer = <<HEADER_ROW>> \o RowsOf(j - 1)
          /\ LICENSE_3rdparty_csv.rows = <<>>
    /\ pc = "done" =>
          /\ Len(formatted_deps) = Len(alphabetized_dep_names)
          /\ LICENSE_3rdparty_csv.rows = <<HEADER_ROW>> \o RowsOf(Len(formatted_deps))

\* A finished run on "eyes@0.1.0" and "Zed@1.0.0": the upper-case key comes
\* first, and the file on disk holds the header, then the row of Zed, then the
\* row of eyes.
OrderedRowsWitness ==
    /\ pc = "done"
    /\ alphabetized_dep_names = <<KEY_ZED, KEY_EYES>>
    /\ Len(LICENSE_3rdparty_csv.rows) = 3
    /\ LICENSE_3rdparty_csv.rows[1] = HEADER_ROW
    /\ SubSeq(LICENSE_3rdparty_csv.rows[2], 1, 4) = <<"Z", "e", "d", ",">>
    /\ SubSeq(LICENSE_3rdparty_csv.rows[3], 1, 5) = <<"e", "y", "e", "s", ",">>

ORIGIN_EYES ==
    <<"g","i","t","h","u","b",".","c","o","m","/","c","l","o","u","d","h","e","a","d","/","e",
      "y","e","s",".","j","s">>

\* C8: the Origin of a record comes from the metadata's repository when it has
\* one (also for the name "eyes"), else from REPO_EXCEPTIONS for the name
\* "eyes", which gives github.com/cloudhead/eyes.js, else it is "NO REPO".
OriginPriority ==
    \A k \in Built :
        LET m == MetaOf(k)
            r == formatted_deps[k]
        IN  IF "repository" \in DOMAIN m
            THEN r.Origin = normalize_repo_url(m.repository).value
            ELSE IF r.Component = NAME_EYES
            THEN r.Origin = ORIGIN_EYES
            ELSE r.Origin = NO_REPO

\* A record for "eyes" whose metadata has its own repository, next to a record
\* for another name without one.
OriginPriorityWitness ==
    /\ \E k \in Built :
          /\ formatted_deps[k].Component = NAME_EYES
          /\ "repository" \in DOMAIN MetaOf(k)
          /\ formatted_deps[k].Origin = REPO_SHORT
    /\ \E k \in Built :
          /\ formatted_deps[k].Component # NAME_EYES
          /\ "repository" \notin DOMAIN MetaOf(k)
          /\ formatted_deps[k].Origin = NO_REPO

\* s without its first n characters.
DropPrefix(s, n) == SubSeq(s, n + 1, Len(s))

\* C9: a resolved value that begins with "https://" is returned without that
\* prefix and every other resolved value is returned unchanged.
SchemeStripped ==
    /\ ~(pc = "aborted" /\ error.line = 13)
    /\ \A k \in Built :
          LET v == resolve_repo_url(formatted_deps[k].Component, MetaOf(k))
          IN  formatted_deps[k].Origin =
                 IF startswith(v, HTTPS_SCHEME)
                 THEN DropPrefix(v, Len(HTTPS_SCHEME))
                 ELSE v

\* c is line with its trailing whitespace removed, and has none in front.
Trimmed(line, c) ==
    /\ c # <<>>
    /\ Len(c) <= Len(line)
    /\ SubSeq(line, 1, Len(c)) = c
    /\ \A q \in (Len(c) + 1)..Len(line) : IsSpace(line[q])
    /\ ~IsSpace(c[1])
    /\ ~IsSpace(c[Len(c)])

\* The first matching line of the file at PATH_B without the space, tab,
\* U+000B, U+001F, U+00A0, U+1680, U+2003 and newline that end it.
B4_TRIMMED ==
    <<"C","o","p","y","r","i","g","h","t"," ","2","0","1","9",","," ","\"","B","a","z","\"">>

\* C10: when a dependency's license file has lines beginning with
\* "Copyright ", the record's Copyright is the first such line in file order,
\* trimmed, whatever was processed before; for the file at PATH_B that is
\* Copyright 2019, "Baz".
FirstCopyrightLine ==
    \A k \in Built :
        OwnFileHasCopyrightLine(MetaOf(k)) =>
            LET f == LicenseFiles[MetaOf(k).licenseFile] IN
            /\ \E n \in 1..Len(f) :
                  /\ BeginsWithCopyright(f[n])
                  /\ \A p \in 1..(n - 1) : ~BeginsWithCopyright(f[p])
                  /\ Trimmed(f[n], formatted_deps[k].Copyright)
            /\ MetaOf(k).licenseFile = PATH_B =>
                  formatted_deps[k].Copyright = B4_TRIMMED

\* A second record whose own file gives a Copyright other than the one the
\* first record left in dep_copyright, from a file with a later matching line.
FirstCopyrightLineWitness ==
    /\ Len(formatted_deps) >= 2
    /\ OwnFileHasCopyrightLine(MetaOf(2))
    /\ MetaOf(2).licenseFile = PATH_A
    /\ formatted_deps[1].Copyright # formatted_deps[2].Copyright
    /\ formatted_deps[2].Copyright = strip(A3)

====
